---- MODULE Spec2Model ----
(***************************************************************************)
(* The edX -> NodeBB signal handlers of client/signals/handlers.py.        *)
(*                                                                         *)
(* Each receiver is a function of the signal's arguments that calls        *)
(* .delay() on zero or more tasks.  The model keeps the tables whose       *)
(* post_save / pre_delete signals the receivers are registered for, the    *)
(* sequence of .delay() calls made so far (the task queue), and the last   *)
(* signal that was dispatched to a receiver.                               *)
(***************************************************************************)
EXTENDS Integers, Sequences, FiniteSets, TLC

VARIABLES
    users,        \* rows of django.contrib.auth.models.User
    profiles,     \* rows of student.models.UserProfile
    courses,      \* rows of CourseOverview
    categories,   \* rows of EdxNodeBBCategory
    enrollments,  \* rows of student.models.CourseEnrollment
    deleting,     \* the instance whose pre_delete was sent and whose row is not yet removed
    queue,        \* every task.delay(...) call made so far, in order
    event,        \* the last signal dispatched to a receiver of this module
    mark,         \* Len(queue) when that signal was dispatched
    nEvents       \* number of signals dispatched to receivers of this module

vars == <<users, profiles, courses, categories, enrollments, deleting,
          queue, event, mark, nEvents>>

----------------------------------------------------------------------------
(* Bounds and input domains *)

MaxEvents == 3

Usernames == {"alice", "bob"}
JoinDates == {0, 1000000000}
FirstNames == {"", "Al"}
LastNames == {"Li"}
ProfileNames == {"Alice L"}
Cities == {"Lahore"}
Countries == {[code |-> "PK", name |-> "Pakistan"]}
BirthYears == {1990, 2001}
CourseKeys == {[org |-> "edX", course |-> "CS101", run |-> "2019"],
               [org |-> "edX", course |-> "CS101", run |-> "2020"]}
DisplayNames == {"Intro"}
CategoryIds == {7, 12}

EmailOf(u) == IF u = "alice" THEN "a@x.com" ELSE "b@x.com"

\* update_fields as post_save passes it: None, or a frozenset of field names
None == [none |-> TRUE, names |-> {}]
frozenset(names) == [none |-> FALSE, names |-> names]
UpdateFieldsInputs ==
    {None} \cup {frozenset(s) : s \in SUBSET {"last_login", "first_name"}}

----------------------------------------------------------------------------
(* Python helpers the receivers use *)

\* bool(update_fields): None and the empty frozenset are falsy
Truthy(update_fields) == ~update_fields.none /\ update_fields.names # {}

Digit(d) == SubSeq("0123456789", d + 1, d + 1)

\* '{}'.format(n) for a non-negative int
RECURSIVE str(_)
str(n) == IF n < 10 THEN Digit(n) ELSE str(n \div 10) \o Digit(n % 10)

\* the slip strftime('%S'): the second of the minute, two digits
strftime_S(dt) == Digit((dt % 60) \div 10) \o Digit((dt % 60) % 10)

\* date_joined.strftime('%s'): seconds since the epoch, in decimal; a
\* datetime is represented by the epoch second strftime reads off it
strftime_s(dt) == str(dt)

\* task.delay(*args, **kwargs)
delay(task, args, kwargs) == [task |-> task, args |-> args, kwargs |-> kwargs]

----------------------------------------------------------------------------
(* The receivers.  Each yields the sequence of .delay() calls it makes. *)

\* the slip "if ... if" for "if ... elif": a created account is also synced
create_and_update_user_if_if(instance, created, update_fields) ==
    (IF created
     THEN << delay("task_create_user_on_nodebb", <<>>,
                   [username |-> instance.username,
                    email |-> instance.email,
                    joindate |-> strftime_s(instance.date_joined)]) >>
     ELSE << >>)
    \o
    (IF Truthy(update_fields) /\ "last_login" \notin update_fields.names
     THEN << delay("task_update_user_profile_on_nodebb", <<>>,
                   [username |-> instance.username,
                    fullname |-> instance.first_name \o " " \o instance.last_name]) >>
     ELSE << >>)

\* the test "update_fields != {'last_login'}" for "'last_login' not in update_fields"
create_and_update_user_solely_last_login(instance, created, update_fields) ==
    IF created
    THEN << delay("task_create_user_on_nodebb", <<>>,
                  [username |-> instance.username,
                   email |-> instance.email,
                   joindate |-> strftime_s(instance.date_joined)]) >>
    ELSE IF Truthy(update_fields) /\ update_fields.names # {"last_login"}
    THEN << delay("task_update_user_profile_on_nodebb", <<>>,
                  [username |-> instance.username,
                   fullname |-> instance.first_name \o " " \o instance.last_name]) >>
    ELSE << >>

\* the last_login test left out: "elif update_fields:"
create_and_update_user_no_login_filter(instance, created, update_fields) ==
    IF created
    THEN << delay("task_create_user_on_nodebb", <<>>,
                  [username |-> instance.username,
                   email |-> instance.email,
                   joindate |-> strftime_s(instance.date_joined)]) >>
    ELSE IF Truthy(update_fields)
    THEN << delay("task_update_user_profile_on_nodebb", <<>>,
                  [username |-> instance.username,
                   fullname |-> instance.first_name \o " " \o instance.last_name]) >>
    ELSE << >>

\* the truth test left out: "elif not update_fields or 'last_login' not in update_fields"
create_and_update_user_no_truth_test(instance, created, update_fields) ==
    IF created
    THEN << delay("task_create_user_on_nodebb", <<>>,
                  [username |-> instance.username,
                   email |-> instance.email,
                   joindate |-> strftime_s(instance.date_joined)]) >>
    ELSE IF ~Truthy(update_fields) \/ "last_login" \notin update_fields.names
    THEN << delay("task_update_user_profile_on_nodebb", <<>>,
                  [username |-> instance.username,
                   fullname |-> instance.first_name \o " " \o instance.last_name]) >>
    ELSE << >>

\* @receiver(post_save, sender=User)
create_and_update_user_on_nodebb(instance, created, update_fields) ==
    IF created
    THEN << delay("task_create_user_on_nodebb", <<>>,
                  [username |-> instance.username,
                   email |-> instance.email,
                   joindate |-> strftime_s(instance.date_joined)]) >>
    ELSE IF Truthy(update_fields) /\ "last_login" \notin update_fields.names
    THEN << delay("task_update_user_profile_on_nodebb", <<>>,
                  [username |-> instance.username,
                   fullname |-> instance.first_name \o " " \o instance.last_name]) >>
    ELSE << >>

\* the profile synced only when it is updated, not when it is created
update_user_profile_unless_created(instance, created) ==
    IF created
    THEN << >>
    ELSE << delay("task_update_user_profile_on_nodebb", <<>>,
                  [username |-> instance.user.username,
                   fullname |-> instance.name,
                   location |-> instance.city \o ", " \o instance.country.name,
                   birthday |-> "01/01/" \o str(instance.year_of_birth)]) >>

\* @receiver(post_save, sender=UserProfile); created arrives in **kwargs and is not read
update_user_profile_on_nodebb(instance, created) ==
    LET user == instance.user
    IN
    << delay("task_update_user_profile_on_nodebb", <<>>,
             [username |-> user.username,
              fullname |-> instance.name,
              location |-> instance.city \o ", " \o instance.country.name,
              birthday |-> "01/01/" \o str(instance.year_of_birth)]) >>

\* the remote user keyed by e-mail instead of username
delete_user_by_email(instance) ==
    << delay("task_delete_user_from_nodebb", <<>>, [username |-> instance.email]) >>

\* @receiver(pre_delete, sender=User)
delete_user_from_nodebb(instance) ==
    << delay("task_delete_user_from_nodebb", <<>>, [username |-> instance.username]) >>

\* the created test left out: every save of a course creates a category
create_category_on_every_save(instance, created, update_fields) ==
    << delay("task_create_category_on_nodebb", <<>>,
             [course_id |-> instance.id,
              course_display_name |-> instance.display_name,
              name |-> instance.display_name \o "-" \o instance.id.org \o "-"
                       \o instance.id.course \o "-" \o instance.id.run]) >>

\* @receiver(post_save, sender=CourseOverview)
create_category_on_nodebb(instance, created, update_fields) ==
    IF created
    THEN << delay("task_create_category_on_nodebb", <<>>,
                  [course_id |-> instance.id,
                   course_display_name |-> instance.display_name,
                   name |-> instance.display_name \o "-" \o instance.id.org \o "-"
                            \o instance.id.course \o "-" \o instance.id.run]) >>
    ELSE << >>

\* @receiver(pre_delete, sender=EdxNodeBBCategory)
delete_category_from_nodebb(instance) ==
    LET category_id == instance.nodebb_cid
    IN  << delay("task_delete_category_from_nodebb", << category_id >>, << >>) >>

\* the created test left out: "elif not instance.is_active:"
manage_membership_ignoring_created(instance, created) ==
    IF instance.is_active
    THEN << delay("task_join_group_on_nodebb",
                  << instance.username, instance.course_id >>, << >>) >>
    ELSE << delay("task_unjoin_group_on_nodebb",
                  << instance.username, instance.course_id >>, << >>) >>

\* the created test inverted: "elif not instance.is_active and kwargs['created']:"
manage_membership_created_inverted(instance, created) ==
    IF instance.is_active
    THEN << delay("task_join_group_on_nodebb",
                  << instance.username, instance.course_id >>, << >>) >>
    ELSE IF ~instance.is_active /\ created
    THEN << delay("task_unjoin_group_on_nodebb",
                  << instance.username, instance.course_id >>, << >>) >>
    ELSE << >>

\* @receiver(post_save, sender=CourseEnrollment); created is kwargs['created']
manage_membership_on_nodebb_group(instance, created) ==
    IF instance.is_active
    THEN << delay("task_join_group_on_nodebb",
                  << instance.username, instance.course_id >>, << >>) >>
    ELSE IF ~instance.is_active /\ ~created
    THEN << delay("task_unjoin_group_on_nodebb",
                  << instance.username, instance.course_id >>, << >>) >>
    ELSE << >>

----------------------------------------------------------------------------
(* Signals *)

NoSignal == [signal |-> "none"]

post_save(sender, instance, created, update_fields) ==
    [signal |-> "post_save", sender |-> sender, instance |-> instance,
     created |-> created, update_fields |-> update_fields]

pre_delete(sender, instance) ==
    [signal |-> "pre_delete", sender |-> sender, instance |-> instance]

\* the receiver registered for the signal runs and its .delay() calls reach the queue
Dispatch(sig, calls) ==
    /\ nEvents < MaxEvents
    /\ deleting = {}
    /\ event' = sig
    /\ mark' = Len(queue)
    /\ queue' = queue \o calls
    /\ nEvents' = nEvents + 1

Init ==
    /\ users = {}
    /\ profiles = {}
    /\ courses = {}
    /\ categories = {}
    /\ enrollments = {}
    /\ deleting = {}
    /\ queue = << >>
    /\ event = NoSignal
    /\ mark = 0
    /\ nEvents = 0

\* User.save(): an insert when no row has the username (created), an update otherwise
UserSave ==
    \E u \in Usernames, update_fields \in UpdateFieldsInputs,
       first_name \in FirstNames, last_name \in LastNames, date_joined \in JoinDates :
        LET rows == {r \in users : r.username = u}
            created == rows = {}
            instance == [username |-> u,
                         email |-> EmailOf(u),
                         date_joined |-> IF created THEN date_joined
                                         ELSE (CHOOSE r \in rows : TRUE).date_joined,
                         first_name |-> first_name,
                         last_name |-> last_name]
        IN  /\ Dispatch(post_save("User", instance, created, update_fields),
                        create_and_update_user_on_nodebb(instance, created, update_fields))
            /\ users' = (users \ rows) \cup {instance}
            /\ UNCHANGED <<profiles, courses, categories, enrollments, deleting>>

\* UserProfile.save(), for the profile of an existing account
ProfileSave ==
    \E user \in users, name \in ProfileNames, city \in Cities,
       country \in Countries, year_of_birth \in BirthYears :
        LET created == \A r \in profiles : r.user.username # user.username
            instance == [user |-> user, name |-> name, city |-> city,
                         country |-> country, year_of_birth |-> year_of_birth]
        IN  /\ Dispatch(post_save("UserProfile", instance, created, None),
                        update_user_profile_on_nodebb(instance, created))
            /\ profiles' = {r \in profiles : r.user.username # user.username}
                              \cup {instance}
            /\ UNCHANGED <<users, courses, categories, enrollments, deleting>>

\* User.delete() begins: pre_delete is sent while the row is still there
UserPreDelete ==
    \E instance \in users :
        /\ Dispatch(pre_delete("User", instance), delete_user_from_nodebb(instance))
        /\ deleting' = {[sender |-> "User", instance |-> instance]}
        /\ UNCHANGED <<users, profiles, courses, categories, enrollments>>

\* CourseOverview.save()
CourseSave ==
    \E id \in CourseKeys, display_name \in DisplayNames,
       update_fields \in UpdateFieldsInputs :
        LET created == \A r \in courses : r.id # id
            instance == [id |-> id, display_name |-> display_name]
        IN  /\ Dispatch(post_save("CourseOverview", instance, created, update_fields),
                        create_category_on_nodebb(instance, created, update_fields))
            /\ courses' = {r \in courses : r.id # id} \cup {instance}
            /\ UNCHANGED <<users, profiles, categories, enrollments, deleting>>

\* an EdxNodeBBCategory row is stored; no receiver of this module hears its post_save
CategoryStore ==
    \E nodebb_cid \in CategoryIds, course \in courses :
        /\ deleting = {}
        /\ \A r \in categories : r.nodebb_cid # nodebb_cid /\ r.course_key # course.id
        /\ categories' = categories \cup
                             {[course_key |-> course.id, nodebb_cid |-> nodebb_cid]}
        /\ UNCHANGED <<users, profiles, courses, enrollments, deleting,
                       queue, event, mark, nEvents>>

\* EdxNodeBBCategory.delete() begins
CategoryPreDelete ==
    \E instance \in categories :
        /\ Dispatch(pre_delete("EdxNodeBBCategory", instance),
                    delete_category_from_nodebb(instance))
        /\ deleting' = {[sender |-> "EdxNodeBBCategory", instance |-> instance]}
        /\ UNCHANGED <<users, profiles, courses, categories, enrollments>>

\* CourseEnrollment.save(), for an existing account
EnrollmentSave ==
    \E user \in users, course_id \in CourseKeys, is_active \in BOOLEAN :
        LET created == \A r \in enrollments :
                          ~(r.username = user.username /\ r.course_id = course_id)
            instance == [username |-> user.username, course_id |-> course_id,
                         is_active |-> is_active]
        IN  /\ Dispatch(post_save("CourseEnrollment", instance, created, None),
                        manage_membership_on_nodebb_group(instance, created))
            /\ enrollments' =
                   {r \in enrollments :
                       ~(r.username = user.username /\ r.course_id = course_id)}
                   \cup {instance}
            /\ UNCHANGED <<users, profiles, courses, categories, deleting>>

\* delete() ends: the row goes, and with a User its profile and enrollments
RemoveRow ==
    \E d \in deleting :
        /\ deleting' = {}
        /\ IF d.sender = "User"
           THEN /\ users' = users \ {d.instance}
                /\ profiles' = {r \in profiles : r.user.username # d.instance.username}
                /\ enrollments' =
                       {r \in enrollments : r.username # d.instance.username}
                /\ UNCHANGED categories
           ELSE /\ categories' = categories \ {d.instance}
                /\ UNCHANGED <<users, profiles, enrollments>>
        /\ UNCHANGED <<courses, queue, event, mark, nEvents>>

Next ==
    \/ UserSave
    \/ ProfileSave
    \/ UserPreDelete
    \/ CourseSave
    \/ CategoryStore
    \/ CategoryPreDelete
    \/ EnrollmentSave
    \/ RemoveRow

Spec == Init /\ [][Next]_vars

----------------------------------------------------------------------------
(* Vocabulary of the properties *)

\* what the receiver of the last dispatched signal enqueued
Enqueued == SubSeq(queue, mark + 1, Len(queue))

Saved(sender) == event.signal = "post_save" /\ event.sender = sender
Deleted(sender) == event.signal = "pre_delete" /\ event.sender = sender

AccountUpdate == Saved("User") /\ ~event.created

\* the number a string of decimal digits denotes
RECURSIVE DecimalValue(_)
DecimalValue(s) ==
    IF Len(s) = 0 THEN 0
    ELSE 10 * DecimalValue(SubSeq(s, 1, Len(s) - 1))
         + (CHOOSE d \in 0..9 : Digit(d) = SubSeq(s, Len(s), Len(s)))

\* s is the decimal numeral of n: digits only, no leading zero
IsNumeral(s, n) ==
    /\ Len(s) >= 1
    /\ \A i \in 1..Len(s) : \E d \in 0..9 : Digit(d) = SubSeq(s, i, i)
    /\ Len(s) > 1 => SubSeq(s, 1, 1) # "0"
    /\ DecimalValue(s) = n

UpdateProfileOfAccount(instance) ==
    [task |-> "task_update_user_profile_on_nodebb", args |-> << >>,
     kwargs |-> [username |-> instance.username,
                 fullname |-> instance.first_name \o " " \o instance.last_name]]

CreateCategoryCalls(id) ==
    {i \in 1..Len(queue) : /\ queue[i].task = "task_create_category_on_nodebb"
                           /\ queue[i].kwargs.course_id = id}

Join(username, course_id) ==
    [task |-> "task_join_group_on_nodebb", args |-> <<username, course_id>>,
     kwargs |-> << >>]

Unjoin(username, course_id) ==
    [task |-> "task_unjoin_group_on_nodebb", args |-> <<username, course_id>>,
     kwargs |-> << >>]

----------------------------------------------------------------------------
(* C1 *)

\* C1 as stated: an account update whose update_fields is non-empty and is
\* not exactly {last_login} (so also a set holding last_login and other
\* fields) enqueues exactly one profile update, keyed by the username, with
\* fullname = first_name + " " + last_name.
C1_UpdateUnlessSolelyLastLogin ==
    (/\ AccountUpdate
     /\ Truthy(event.update_fields)
     /\ event.update_fields.names # {"last_login"})
    => Enqueued = << UpdateProfileOfAccount(event.instance) >>

\* C1 amended: an account update whose update_fields is non-empty and does
\* not contain last_login enqueues exactly one profile update, keyed by the
\* username, with fullname = first_name + " " + last_name; an update whose
\* update_fields holds last_login together with other fields enqueues nothing.
C1_UpdateUnlessLastLoginPresent ==
    /\ (/\ AccountUpdate
        /\ Truthy(event.update_fields)
        /\ "last_login" \notin event.update_fields.names)
       => Enqueued = << UpdateProfileOfAccount(event.instance) >>
    /\ (/\ AccountUpdate
        /\ "last_login" \in event.update_fields.names
        /\ event.update_fields.names # {"last_login"})
       => Enqueued = << >>

C1_Witness ==
    /\ AccountUpdate
    /\ event.update_fields = frozenset({"first_name"})
    /\ Len(Enqueued) = 1
    /\ Enqueued[1].task = "task_update_user_profile_on_nodebb"
    /\ Enqueued[1].kwargs = [username |-> "bob", fullname |-> "Al Li"]

----------------------------------------------------------------------------
(* C2 *)

\* C2: an enrollment save with is_active true enqueues exactly one join with
\* (username, course id), created or not; with is_active false and created
\* false exactly one unjoin with (username, course id); with is_active false
\* and created true nothing.
C2_MembershipBySave ==
    Saved("CourseEnrollment") =>
        LET i == event.instance
        IN  /\ i.is_active => Enqueued = << Join(i.username, i.course_id) >>
            /\ (~i.is_active /\ ~event.created)
                   => Enqueued = << Unjoin(i.username, i.course_id) >>
            /\ (~i.is_active /\ event.created) => Enqueued = << >>

C2_Witness ==
    /\ Saved("CourseEnrollment")
    /\ ~event.instance.is_active
    /\ ~event.created
    /\ Len(Enqueued) = 1
    /\ Enqueued[1].task = "task_unjoin_group_on_nodebb"
    /\ Enqueued[1].args[1] = "alice"

----------------------------------------------------------------------------
(* C3 *)

\* C3: an account save with created true enqueues exactly one create-user
\* call whose payload is the username, the e-mail and the join date as the
\* decimal numeral of its epoch seconds, and no profile update, whatever
\* update_fields is.
C3_CreatedEnqueuesCreateUser ==
    (Saved("User") /\ event.created) =>
        /\ Len(Enqueued) = 1
        /\ Enqueued[1].task = "task_create_user_on_nodebb"
        /\ Enqueued[1].args = << >>
        /\ DOMAIN Enqueued[1].kwargs = {"username", "email", "joindate"}
        /\ Enqueued[1].kwargs.username = event.instance.username
        /\ Enqueued[1].kwargs.email = event.instance.email
        /\ IsNumeral(Enqueued[1].kwargs.joindate, event.instance.date_joined)

C3_Witness ==
    /\ Saved("User")
    /\ event.created
    /\ event.update_fields = frozenset({"first_name"})
    /\ event.instance.date_joined = 1000000000
    /\ Enqueued = << [task |-> "task_create_user_on_nodebb", args |-> << >>,
                      kwargs |-> [username |-> "alice", email |-> "a@x.com",
                                  joindate |-> "1000000000"]] >>

----------------------------------------------------------------------------
(* C4 *)

\* C4: an account update whose update_fields is exactly {last_login}
\* enqueues nothing: the queue is as long as it was before the login.
C4_LoginEnqueuesNothing ==
    (AccountUpdate /\ event.update_fields = frozenset({"last_login"}))
    => (Enqueued = << >> /\ Len(queue) = mark)

C4_Witness ==
    /\ AccountUpdate
    /\ event.update_fields = frozenset({"last_login"})
    /\ event.instance.first_name = "Al"
    /\ Len(queue) = 1
    /\ mark = 1

----------------------------------------------------------------------------
(* C5 *)

\* C5: no receiver enqueues two calls for one signal, and the queue never
\* holds more calls than signals were dispatched.
C5_AtMostOnePerEvent ==
    /\ Len(queue) - mark <= 1
    /\ Len(queue) <= nEvents

C5_Witness ==
    /\ nEvents >= 3
    /\ Len(queue) = 2
    /\ Len(Enqueued) = 1

----------------------------------------------------------------------------
(* C6 *)

\* C6: the save that creates a course enqueues exactly one create-category
\* call (course id, display name, name = display-org-course-run); a later
\* save of the course enqueues nothing, whatever update_fields is; so the
\* queue holds one create-category call for a stored course and none for
\* any other.
C6_OneCategoryPerCourse ==
    /\ (Saved("CourseOverview") /\ event.created) =>
           Enqueued = << [task |-> "task_create_category_on_nodebb", args |-> << >>,
                          kwargs |-> [course_id |-> event.instance.id,
                                      course_display_name |-> event.instance.display_name,
                                      name |-> event.instance.display_name \o "-"
                                               \o event.instance.id.org \o "-"
                                               \o event.instance.id.course \o "-"
                                               \o event.instance.id.run]] >>
    /\ (Saved("CourseOverview") /\ ~event.created) => Enqueued = << >>
    /\ \A id \in CourseKeys :
           Cardinality(CreateCategoryCalls(id)) =
               IF \E r \in courses : r.id = id THEN 1 ELSE 0

C6_Witness ==
    /\ Saved("CourseOverview")
    /\ ~event.created
    /\ Truthy(event.update_fields)
    /\ Enqueued = << >>
    /\ \E i \in CreateCategoryCalls(event.instance.id) :
           queue[i].kwargs.name = "Intro-edX-CS101-2019"

----------------------------------------------------------------------------
(* C7 *)

\* C7: every profile save, created or not, enqueues exactly one profile
\* update keyed by the owning account's username, with fullname = the
\* profile's name, location = "city, country" and birthday = "01/01/"
\* followed by the decimal numeral of the birth year.
C7_ProfileSaveEnqueuesUpdate ==
    Saved("UserProfile") =>
        LET i == event.instance
        IN  /\ Len(Enqueued) = 1
            /\ Enqueued[1].task = "task_update_user_profile_on_nodebb"
            /\ Enqueued[1].args = << >>
            /\ DOMAIN Enqueued[1].kwargs =
                   {"username", "fullname", "location", "birthday"}
            /\ Enqueued[1].kwargs.username = i.user.username
            /\ Enqueued[1].kwargs.fullname = i.name
            /\ Enqueued[1].kwargs.location = i.city \o ", " \o i.country.name
            /\ SubSeq(Enqueued[1].kwargs.birthday, 1, 6) = "01/01/"
            /\ IsNumeral(SubSeq(Enqueued[1].kwargs.birthday, 7,
                                Len(Enqueued[1].kwargs.birthday)),
                         i.year_of_birth)

C7_Witness ==
    /\ Saved("UserProfile")
    /\ ~event.created
    /\ Enqueued = << [task |-> "task_update_user_profile_on_nodebb", args |-> << >>,
                      kwargs |-> [username |-> "alice", fullname |-> "Alice L",
                                  location |-> "Lahore, Pakistan",
                                  birthday |-> "01/01/1990"]] >>

----------------------------------------------------------------------------
(* C8 *)

DeleteCall(d) ==
    IF d.sender = "User"
    THEN [task |-> "task_delete_user_from_nodebb", args |-> << >>,
          kwargs |-> [username |-> d.instance.username]]
    ELSE [task |-> "task_delete_category_from_nodebb",
          args |-> << d.instance.nodebb_cid >>, kwargs |-> << >>]

\* C8: every pre_delete enqueues, unconditionally, exactly one delete call
\* carrying the identifier of the record (the username of a User, the
\* nodebb_cid of an EdxNodeBBCategory); while the deletion is pending the
\* row is still stored; and a row is removed only after its delete call was
\* enqueued, the removal itself enqueuing nothing.
C8_DeleteEnqueuedBeforeRemoval ==
    /\ [](event.signal = "pre_delete" => Enqueued = << DeleteCall(event) >>)
    /\ [](\A d \in deleting :
             /\ event = pre_delete(d.sender, d.instance)
             /\ d.instance \in (IF d.sender = "User" THEN users ELSE categories))
    /\ [][\A r \in (users \ users') :
             (\A n \in users' : n.username # r.username) =>
                 /\ queue' = queue
                 /\ Len(queue) >= 1
                 /\ queue[Len(queue)] = DeleteCall([sender |-> "User", instance |-> r])
         ]_vars
    /\ [][\A r \in (categories \ categories') :
             /\ queue' = queue
             /\ Len(queue) >= 1
             /\ queue[Len(queue)] =
                    DeleteCall([sender |-> "EdxNodeBBCategory", instance |-> r])
         ]_vars

C8_Witness ==
    /\ Deleted("User")
    /\ deleting = {}
    /\ event.instance \notin users
    /\ queue[Len(queue)] = [task |-> "task_delete_user_from_nodebb", args |-> << >>,
                             kwargs |-> [username |-> "bob"]]

----------------------------------------------------------------------------
(* C9 *)

\* C9: an account update whose update_fields is None or empty enqueues
\* nothing.
C9_PlainSaveEnqueuesNothing ==
    (AccountUpdate /\ (event.update_fields.none \/ event.update_fields.names = {}))
    => Enqueued = << >>

C9_Witness ==
    /\ AccountUpdate
    /\ event.update_fields = None
    /\ event.instance.first_name = "Al"
    /\ Len(queue) = 1
    /\ mark = 1

----------------------------------------------------------------------------
(* C10 *)

\* C10 as stated: every unjoin call in the queue is preceded by a join call
\* for the same (username, course id).
C10_UnjoinFollowsJoin ==
    \A i \in 1..Len(queue) :
        queue[i].task = "task_unjoin_group_on_nodebb" =>
            \E j \in 1..(i - 1) :
                /\ queue[j].task = "task_join_group_on_nodebb"
                /\ queue[j].args = queue[i].args

\* C10 amended: an unjoin call is enqueued only by an enrollment save that
\* is not an insert and leaves the enrollment inactive, whether the
\* enrollment was active before that save or not, and it carries that
\* enrollment's (username, course id); the insert of an inactive enrollment
\* enqueues nothing.
C10_UnjoinOnlyOnInactiveUpdate ==
    /\ (\E k \in 1..Len(Enqueued) : Enqueued[k].task = "task_unjoin_group_on_nodebb")
       => /\ Saved("CourseEnrollment")
          /\ ~event.created
          /\ ~event.instance.is_active
          /\ Enqueued = << Unjoin(event.instance.username, event.instance.course_id) >>
    /\ (Saved("CourseEnrollment") /\ event.created /\ ~event.instance.is_active)
       => Enqueued = << >>

C10_Witness ==
    /\ Saved("CourseEnrollment")
    /\ ~event.created
    /\ ~event.instance.is_active
    /\ queue = << [task |-> "task_create_user_on_nodebb", args |-> << >>,
                   kwargs |-> [username |-> "alice", email |-> "a@x.com",
                               joindate |-> "0"]],
                  Unjoin("alice", event.instance.course_id) >>

====
